---- MODULE Spec2Model ----
(***************************************************************************)
(* A model of src/meta_schedule/database/database.cc: the Workload and     *)
(* TuningRecord codecs, the query facade of DatabaseNode and the           *)
(* thread-local scope stack of Database.                                   *)
(***************************************************************************)
EXTENDS Integers, Sequences, FiniteSets, TLC

VARIABLES
    tls,        \* thread -> the thread's std::vector<Database> (ThreadLocalDatabases)
    hist,       \* thread -> the EnterWithScope/ExitWithScope calls made on it, in order
    misused,    \* thread -> pop_back() was called on its empty vector
    crashed,    \* the process was terminated
    last,       \* the last scope call: [op, thread, result]
    workloads,  \* the database's set of Workloads
    records,    \* the database's TuningRecords, in commit order
    qlast,      \* the last database call: [op, mod, result, calls, error]
    wl,         \* the Workload a caller holds (Optional)
    wlOrigin,   \* how wl was constructed: [kind, given]
    wire,       \* the portable (JSON) value at hand
    wireSrc,    \* the Workload wire was encoded from (Optional)
    dec         \* the last codec call: [op, status, value, report, cause]

scopeVars == <<tls, hist, misused, crashed, last>>
storeVars == <<workloads, records, qlast>>
codecVars == <<wl, wlOrigin, wire, wireSrc, dec>>

vars == <<tls, hist, misused, crashed, last, workloads, records, qlast,
          wl, wlOrigin, wire, wireSrc, dec>>

\* NullOpt / nullptr
None == "none"

(***************************************************************************)
(* Bounds of the model                                                     *)
(***************************************************************************)
MaxDepth == 2   \* deepest scope nesting explored
MaxOps == 3     \* EnterWithScope/ExitWithScope calls explored per thread

Threads == {"t1", "t2"}
Databases == {"db1", "db2"}

RECURSIVE SeqsUpTo(_, _)
SeqsUpTo(S, n) ==
    IF n = 0 THEN {<<>>}
    ELSE LET shorter == SeqsUpTo(S, n - 1)
         IN shorter \cup {Append(s, x) : s \in {q \in shorter : Len(q) = n - 1}, x \in S}

Front(s) == SubSeq(s, 1, Len(s) - 1)

(***************************************************************************)
(* Scoped context stack (database.cc 192-208)                              *)
(***************************************************************************)

\* Database::Current on thread t: tls->empty() ? NullOpt : tls->back()
CurrentOf(t) == IF tls[t] = <<>> THEN None ELSE tls[t][Len(tls[t])]

\* a push onto one vector shared by every thread (a static without thread_local)
EnterWithScopeShared(t, db) ==
    /\ ~crashed
    /\ Len(tls[t]) < MaxDepth
    /\ Len(hist[t]) < MaxOps
    /\ tls' = [u \in Threads |-> IF Len(tls[u]) < MaxDepth THEN Append(tls[u], db) ELSE tls[u]]
    /\ hist' = [hist EXCEPT ![t] = Append(@, [op |-> "enter", db |-> db])]
    /\ last' = [op |-> "EnterWithScope", thread |-> t, result |-> "ok"]
    /\ UNCHANGED <<misused, crashed, storeVars, codecVars>>

\* ThreadLocalDatabases()->push_back(*this)
EnterWithScope(t, db) ==
    /\ ~crashed
    /\ Len(tls[t]) < MaxDepth
    /\ Len(hist[t]) < MaxOps
    /\ tls' = [tls EXCEPT ![t] = Append(@, db)]
    /\ hist' = [hist EXCEPT ![t] = Append(@, [op |-> "enter", db |-> db])]
    /\ last' = [op |-> "EnterWithScope", thread |-> t, result |-> "ok"]
    /\ UNCHANGED <<misused, crashed, storeVars, codecVars>>

\* a pop of the oldest element instead of the newest
ExitWithScopeFront(t) ==
    /\ ~crashed
    /\ Len(hist[t]) < MaxOps
    /\ tls[t] # <<>>
    /\ tls' = [tls EXCEPT ![t] = Tail(@)]
    /\ hist' = [hist EXCEPT ![t] = Append(@, [op |-> "exit", db |-> None])]
    /\ last' = [op |-> "ExitWithScope", thread |-> t, result |-> "ok"]
    /\ UNCHANGED <<misused, crashed, storeVars, codecVars>>

\* ThreadLocalDatabases()->pop_back(). The code has no emptiness check, and
\* pop_back() on an empty std::vector is undefined: the process is terminated
\* (a hardened library's assertion, a fault in the element's destructor), or the
\* vector is left in an indeterminate state and the call returns.
ExitWithScope(t) ==
    /\ ~crashed
    /\ Len(hist[t]) < MaxOps
    /\ hist' = [hist EXCEPT ![t] = Append(@, [op |-> "exit", db |-> None])]
    /\ \/ /\ tls[t] # <<>>
          /\ tls' = [tls EXCEPT ![t] = Front(@)]
          /\ last' = [op |-> "ExitWithScope", thread |-> t, result |-> "ok"]
          /\ UNCHANGED <<misused, crashed, storeVars, codecVars>>
       \/ /\ tls[t] = <<>>
          /\ crashed' = TRUE
          /\ misused' = [misused EXCEPT ![t] = TRUE]
          /\ last' = [op |-> "ExitWithScope", thread |-> t, result |-> "terminated"]
          /\ UNCHANGED <<tls, storeVars, codecVars>>
       \/ /\ tls[t] = <<>>
          /\ \E g \in SeqsUpTo(Databases, MaxDepth) :
                tls' = [tls EXCEPT ![t] = g]
          /\ misused' = [misused EXCEPT ![t] = TRUE]
          /\ last' = [op |-> "ExitWithScope", thread |-> t, result |-> "indeterminate"]
          /\ UNCHANGED <<crashed, storeVars, codecVars>>

\* Database::Current()
Current(t) ==
    /\ ~crashed
    /\ last' = [op |-> "Current", thread |-> t, result |-> CurrentOf(t)]
    /\ UNCHANGED <<tls, hist, misused, crashed, storeVars, codecVars>>

(***************************************************************************)
(* Programs, hashes, traces (collaborators of database.cc)                 *)
(***************************************************************************)
HashSpace == 2   \* number of distinct structural hashes

Mods == {0, 1, 2}
Targets == {"llvm", "cuda"}
Insts == {1, 2}

\* Optional<T>: NullOpt is the empty sequence, a defined value a 1-element one
NullOpt == <<>>
Some(x) == <<x>>

\* tvm::StructuralHash()(mod): deterministic, and not injective (distinct
\* module objects of one structure, or colliding structures, hash alike)
StructuralHash(mod) == 12 * (mod % HashSpace)

\* one instruction of a trace applied to a schedule's module
ApplyInst(mod, inst) == (mod + inst) % Cardinality(Mods)

\* tir::Schedule::Traced(mod, ...): a fresh schedule over mod, its trace empty
Traced(mod) == [mod |-> mod, trace |-> <<>>]

\* trace->ApplyToSchedule(sch, false): every instruction in order
RECURSIVE ApplyToSchedule(_, _)
ApplyToSchedule(trace, sch) ==
    IF trace = <<>> THEN sch
    ELSE ApplyToSchedule(Tail(trace),
                         [mod |-> ApplyInst(sch.mod, Head(trace)),
                          trace |-> Append(sch.trace, Head(trace))])

(***************************************************************************)
(* Workload and TuningRecord constructors (database.cc 26-38, 77-86)       *)
(***************************************************************************)

\* a constructor that leaves shash at its default
WorkloadNoHash(mod) == [mod |-> mod, shash |-> 0]

\* Workload::Workload(IRModule mod)
Workload(mod) == [mod |-> mod, shash |-> StructuralHash(mod)]

\* Workload::Workload(IRModule mod, THashCode shash)
WorkloadWithHash(mod, shash) == [mod |-> mod, shash |-> shash]

\* TuningRecord::TuningRecord(trace, workload, run_secs, target, args_info)
TuningRecord(trace, workload, run_secs, target, args_info) ==
    [trace |-> trace, workload |-> workload, run_secs |-> run_secs,
     target |-> target, args_info |-> args_info]

(***************************************************************************)
(* The Database contract (pure virtual in DatabaseNode; from the           *)
(* specification's sections 3 and 4.3). db is [workloads, records].        *)
(***************************************************************************)
MaxRecords == 2   \* committed records explored

\* existence check by content hash
HasWorkload(db, mod) == \E w \in db.workloads : w.shash = StructuralHash(mod)

\* idempotent registration: the stored Workload of that hash, else a new one
CommitWorkload(db, mod) ==
    IF HasWorkload(db, mod)
    THEN [db |-> db,
          ret |-> CHOOSE w \in db.workloads : w.shash = StructuralHash(mod)]
    ELSE [db |-> [db EXCEPT !.workloads = @ \cup {Workload(mod)}],
          ret |-> Workload(mod)]

\* appends the record
CommitTuningRecord(db, rec) == [db EXCEPT !.records = Append(@, rec)]

\* ranking key: the sum of the run times over their count, compared by
\* cross-multiplication; a record without measurements ranks last
RECURSIVE SumSeq(_)
SumSeq(s) == IF s = <<>> THEN 0 ELSE Head(s) + SumSeq(Tail(s))

Measured(rec) == rec.run_secs # NullOpt /\ rec.run_secs[1] # <<>>

FasterThan(a, b) ==
    IF ~Measured(a) THEN FALSE
    ELSE IF ~Measured(b) THEN TRUE
    ELSE SumSeq(a.run_secs[1]) * Len(b.run_secs[1])
             < SumSeq(b.run_secs[1]) * Len(a.run_secs[1])

\* the indices of recs ordered best first, ties in commit order
RECURSIVE Ranked(_, _)
Ranked(recs, idx) ==
    IF idx = {} THEN <<>>
    ELSE LET best == CHOOSE i \in idx :
                        \A j \in idx \ {i} :
                            \/ FasterThan(recs[i], recs[j])
                            \/ (~FasterThan(recs[j], recs[i]) /\ i < j)
         IN <<recs[best]>> \o Ranked(recs, idx \ {best})

\* at most k records of the workload, ascending by run time; none for k <= 0
GetTopK(db, workload, k) ==
    IF k <= 0 THEN <<>>
    ELSE LET mine == {i \in 1..Len(db.records) :
                         db.records[i].workload.shash = workload.shash}
             all == Ranked(db.records, mine)
         IN SubSeq(all, 1, IF Len(all) < k THEN Len(all) ELSE k)

(***************************************************************************)
(* Query facade (database.cc 159-190). Each returns the database after     *)
(* the call, the result, the Database methods it called, and whether it    *)
(* ended in an error.                                                      *)
(***************************************************************************)

\* the HasWorkload guard left out
QueryTuningRecordUnguarded(db, mod, target) ==
    LET c == CommitWorkload(db, mod)
        recs == GetTopK(c.db, c.ret, 1)
    IN [db |-> c.db,
        ret |-> IF recs = <<>> THEN NullOpt ELSE Some(recs[1]),
        calls |-> <<"CommitWorkload", "GetTopK">>,
        error |-> FALSE]

\* the guard inverted: if (this->HasWorkload(mod)) return NullOpt
QueryTuningRecordInverted(db, mod, target) ==
    IF HasWorkload(db, mod)
    THEN [db |-> db, ret |-> NullOpt, calls |-> <<"HasWorkload">>, error |-> FALSE]
    ELSE LET c == CommitWorkload(db, mod)
             recs == GetTopK(c.db, c.ret, 1)
         IN [db |-> c.db,
             ret |-> IF recs = <<>> THEN NullOpt ELSE Some(recs[1]),
             calls |-> <<"HasWorkload", "CommitWorkload", "GetTopK">>,
             error |-> FALSE]

\* DatabaseNode::QueryTuningRecord(IRModule mod, Target target)
QueryTuningRecord(db, mod, target) ==
    IF ~HasWorkload(db, mod)
    THEN [db |-> db, ret |-> NullOpt, calls |-> <<"HasWorkload">>, error |-> FALSE]
    ELSE LET c == CommitWorkload(db, mod)
             recs == GetTopK(c.db, c.ret, 1)
             calls == <<"HasWorkload", "CommitWorkload", "GetTopK">>
         IN IF recs = <<>>
            THEN [db |-> c.db, ret |-> NullOpt, calls |-> calls, error |-> FALSE]
            ELSE IF Len(recs) # 1      \* ICHECK_EQ(records.size(), 1)
            THEN [db |-> c.db, ret |-> NullOpt, calls |-> calls, error |-> TRUE]
            ELSE [db |-> c.db, ret |-> Some(recs[1]), calls |-> calls, error |-> FALSE]

\* the schedule built from the query module instead of the record's
QueryScheduleOfQueryMod(db, mod, target) ==
    LET q == QueryTuningRecord(db, mod, target)
    IN IF q.ret # NullOpt
       THEN [q EXCEPT !.ret = Some(ApplyToSchedule(q.ret[1].trace, Traced(mod)))]
       ELSE q

\* DatabaseNode::QuerySchedule(IRModule mod, Target target)
QuerySchedule(db, mod, target) ==
    LET q == QueryTuningRecord(db, mod, target)
    IN IF q.ret # NullOpt
       THEN LET record == q.ret[1]
                sch == Traced(record.workload.mod)
            IN [q EXCEPT !.ret = Some(ApplyToSchedule(record.trace, sch))]
       ELSE q

\* DatabaseNode::QueryIRModule(IRModule mod, Target target)
QueryIRModule(db, mod, target) ==
    LET q == QuerySchedule(db, mod, target)
    IN IF q.ret # NullOpt
       THEN [q EXCEPT !.ret = Some(q.ret[1].mod)]
       ELSE q

Store == [workloads |-> workloads, records |-> records]

\* a caller registers a program
CallCommitWorkload(mod) ==
    LET c == CommitWorkload(Store, mod)
    IN /\ ~crashed
       /\ workloads' = c.db.workloads
       /\ records' = c.db.records
       /\ qlast' = [op |-> "CommitWorkload", mod |-> mod, result |-> Some(c.ret),
                    calls |-> <<"CommitWorkload">>, error |-> FALSE]
       /\ UNCHANGED <<scopeVars, codecVars>>

\* a caller commits a record it built for a program
CallCommitTuningRecord(cand, mod) ==
    LET rec == TuningRecord(cand.trace, Workload(mod), cand.run_secs, cand.target, NullOpt)
        db == CommitTuningRecord(Store, rec)
    IN /\ ~crashed
       /\ Len(records) < MaxRecords
       /\ workloads' = db.workloads
       /\ records' = db.records
       /\ qlast' = [op |-> "CommitTuningRecord", mod |-> mod, result |-> NullOpt,
                    calls |-> <<"CommitTuningRecord">>, error |-> FALSE]
       /\ UNCHANGED <<scopeVars, codecVars>>

CallQueryTuningRecord(mod, target) ==
    LET q == QueryTuningRecord(Store, mod, target)
    IN /\ ~crashed
       /\ workloads' = q.db.workloads
       /\ records' = q.db.records
       /\ qlast' = [op |-> "QueryTuningRecord", mod |-> mod, result |-> q.ret,
                    calls |-> q.calls, error |-> q.error]
       /\ UNCHANGED <<scopeVars, codecVars>>

CallQuerySchedule(mod, target) ==
    LET q == QuerySchedule(Store, mod, target)
    IN /\ ~crashed
       /\ workloads' = q.db.workloads
       /\ records' = q.db.records
       /\ qlast' = [op |-> "QuerySchedule", mod |-> mod, result |-> q.ret,
                    calls |-> q.calls, error |-> q.error]
       /\ UNCHANGED <<scopeVars, codecVars>>

CallQueryIRModule(mod, target) ==
    LET q == QueryIRModule(Store, mod, target)
    IN /\ ~crashed
       /\ workloads' = q.db.workloads
       /\ records' = q.db.records
       /\ qlast' = [op |-> "QueryIRModule", mod |-> mod, result |-> q.ret,
                    calls |-> q.calls, error |-> q.error]
       /\ UNCHANGED <<scopeVars, codecVars>>

\* the candidates a search commits: a trace, its measurements, its target
Candidates ==
    { [trace |-> <<1>>, run_secs |-> Some(<<2>>), target |-> Some("llvm")],
      [trace |-> <<2, 1>>, run_secs |-> Some(<<1>>), target |-> NullOpt],
      [trace |-> <<2>>, run_secs |-> NullOpt, target |-> Some("cuda")] }

InitStore ==
    /\ workloads = {}
    /\ records = <<>>
    /\ qlast = [op |-> "none", mod |-> 0, result |-> NullOpt, calls |-> <<>>,
                error |-> FALSE]

NextStore ==
    \/ \E mod \in Mods : CallCommitWorkload(mod)
    \/ \E cand \in Candidates, mod \in Mods : CallCommitTuningRecord(cand, mod)
    \/ \E mod \in Mods, target \in Targets : CallQueryTuningRecord(mod, target)
    \/ \E mod \in Mods, target \in Targets : CallQuerySchedule(mod, target)
    \/ \E mod \in Mods, target \in Targets : CallQueryIRModule(mod, target)

(***************************************************************************)
(* Portable values and the text codecs (collaborators of database.cc)      *)
(***************************************************************************)

\* a portable value: its kind fixes the type of val
Null == [kind |-> "null", val |-> <<>>]
Str(s) == [kind |-> "str", val |-> s]
Num(n) == [kind |-> "num", val |-> <<n>>]
Arr(es) == [kind |-> "arr", val |-> es]
MapV(name) == [kind |-> "map", val |-> <<name>>]

Digits == <<"0", "1", "2", "3", "4", "5", "6", "7", "8", "9">>

\* SHash2Str: std::to_string of the hash, its decimal digits
RECURSIVE SHash2Str(_)
SHash2Str(h) ==
    IF h < 10 THEN <<Digits[h + 1]>>
    ELSE SHash2Str(h \div 10) \o <<Digits[(h % 10) + 1]>>

\* tvm::SaveJSON(mod): the module's text, as bytes: '{', an 'n' per node, '}'
SaveJSON(mod) == <<123>> \o [i \in 1..mod |-> 110] \o <<125>>

\* tvm::LoadJSON(json_mod): the module of a text, an error for any other text
LoadJSON(bytes) ==
    IF /\ Len(bytes) >= 2
       /\ bytes[1] = 123
       /\ bytes[Len(bytes)] = 125
       /\ \A i \in 2..(Len(bytes) - 1) : bytes[i] = 110
       /\ (Len(bytes) - 2) \in Mods
    THEN [ok |-> TRUE, mod |-> Len(bytes) - 2]
    ELSE [ok |-> FALSE, mod |-> 0]

B64Alphabet ==
    <<"A", "B", "C", "D", "E", "F", "G", "H", "I", "J", "K", "L", "M",
      "N", "O", "P", "Q", "R", "S", "T", "U", "V", "W", "X", "Y", "Z",
      "a", "b", "c", "d", "e", "f", "g", "h", "i", "j", "k", "l", "m",
      "n", "o", "p", "q", "r", "s", "t", "u", "v", "w", "x", "y", "z",
      "0", "1", "2", "3", "4", "5", "6", "7", "8", "9", "+", "/">>

B64Char(n) == B64Alphabet[n + 1]
IsB64Char(c) == \E i \in 1..Len(B64Alphabet) : B64Alphabet[i] = c
B64Index(c) == (CHOOSE i \in 1..Len(B64Alphabet) : B64Alphabet[i] = c) - 1

\* Base64Encode: three bytes to four characters, the tail padded with '='
RECURSIVE Base64Encode(_)
Base64Encode(bytes) ==
    IF bytes = <<>> THEN <<>>
    ELSE IF Len(bytes) = 1
    THEN LET n == bytes[1] * 65536
         IN <<B64Char(n \div 262144), B64Char((n \div 4096) % 64), "=", "=">>
    ELSE IF Len(bytes) = 2
    THEN LET n == bytes[1] * 65536 + bytes[2] * 256
         IN <<B64Char(n \div 262144), B64Char((n \div 4096) % 64),
              B64Char((n \div 64) % 64), "=">>
    ELSE LET n == bytes[1] * 65536 + bytes[2] * 256 + bytes[3]
         IN <<B64Char(n \div 262144), B64Char((n \div 4096) % 64),
              B64Char((n \div 64) % 64), B64Char(n % 64)>>
            \o Base64Encode(SubSeq(bytes, 4, Len(bytes)))

\* Base64Decode: the bytes of a text; an error unless the text is whole
\* four-character groups of the alphabet, padded only at the end
RECURSIVE Base64Decode(_)
Base64Decode(text) ==
    IF text = <<>> THEN [ok |-> TRUE, bytes |-> <<>>]
    ELSE IF Len(text) < 4 \/ ~IsB64Char(text[1]) \/ ~IsB64Char(text[2])
    THEN [ok |-> FALSE, bytes |-> <<>>]
    ELSE LET hi == B64Index(text[1]) * 262144 + B64Index(text[2]) * 4096
         IN IF text[3] = "=" /\ text[4] = "="
            THEN [ok |-> Len(text) = 4, bytes |-> <<hi \div 65536>>]
            ELSE IF ~IsB64Char(text[3]) THEN [ok |-> FALSE, bytes |-> <<>>]
            ELSE LET mid == hi + B64Index(text[3]) * 64
                 IN IF text[4] = "="
                    THEN [ok |-> Len(text) = 4,
                          bytes |-> <<mid \div 65536, (mid \div 256) % 256>>]
                    ELSE IF ~IsB64Char(text[4]) THEN [ok |-> FALSE, bytes |-> <<>>]
                    ELSE LET n == mid + B64Index(text[4])
                             rest == Base64Decode(SubSeq(text, 5, Len(text)))
                         IN [ok |-> rest.ok,
                             bytes |-> <<n \div 65536, (n \div 256) % 256, n % 256>>
                                           \o rest.bytes]

(***************************************************************************)
(* Workload codec (database.cc 40-73)                                      *)
(***************************************************************************)

\* the outcome of a codec call
Outcome(op, status, value, report, cause) ==
    [op |-> op, status |-> status, value |-> value, report |-> report, cause |-> cause]

\* LOG(FATAL) in the catch block: "Unable to parse the JSON object: <json_obj>
\* The error is: <e.what()>"; nothing is returned
ParseError(op, json_obj, cause) == Outcome(op, "error", NullOpt, Some(json_obj), cause)

\* the base64 stream left unflushed: the last, partial group is not written
AsJSONUnflushed(w) ==
    LET json_mod == SaveJSON(w.mod)
        whole == SubSeq(json_mod, 1, Len(json_mod) - (Len(json_mod) % 3))
    IN Arr(<<Str(SHash2Str(w.shash)), Str(Base64Encode(whole))>>)

\* WorkloadNode::AsJSON
AsJSON(w) ==
    LET json_mod == SaveJSON(w.mod)
        b64_mod == Base64Encode(json_mod)
    IN Arr(<<Str(SHash2Str(w.shash)), Str(b64_mod)>>)

\* the decode without the CHECK_EQ of the two hash strings
FromJSONUnchecked(json_obj) ==
    IF json_obj.kind # "arr" \/ Len(json_obj.val) # 2
    THEN ParseError("Workload::FromJSON", json_obj, "Check failed")
    ELSE IF json_obj.val[1].kind # "str" \/ json_obj.val[2].kind # "str"
    THEN ParseError("Workload::FromJSON", json_obj, "Downcast failed")
    ELSE LET json_mod == Base64Decode(json_obj.val[2].val)
             loaded == LoadJSON(json_mod.bytes)
         IN IF ~json_mod.ok \/ ~loaded.ok
            THEN ParseError("Workload::FromJSON", json_obj, "Load failed")
            ELSE Outcome("Workload::FromJSON", "ok",
                         Some(WorkloadWithHash(loaded.mod, StructuralHash(loaded.mod))),
                         NullOpt, "")

\* Workload::FromJSON(const ObjectRef& json_obj)
FromJSON(json_obj) ==
    IF json_obj.kind # "arr" \/ Len(json_obj.val) # 2
    THEN ParseError("Workload::FromJSON", json_obj, "Check failed")
    ELSE IF json_obj.val[1].kind # "str"
    THEN ParseError("Workload::FromJSON", json_obj, "Downcast failed")
    ELSE IF json_obj.val[2].kind # "str"
    THEN ParseError("Workload::FromJSON", json_obj, "Downcast failed")
    ELSE LET str_shash == json_obj.val[1].val
             json_mod == Base64Decode(json_obj.val[2].val)
             loaded == LoadJSON(json_mod.bytes)
         IN IF ~json_mod.ok \/ ~loaded.ok
            THEN ParseError("Workload::FromJSON", json_obj, "Load failed")
            ELSE LET shash == StructuralHash(loaded.mod)
                     recalc_shash == SHash2Str(shash)
                 IN IF recalc_shash # str_shash
                    THEN ParseError("Workload::FromJSON", json_obj,
                                    "Structural hash changed")
                    ELSE Outcome("Workload::FromJSON", "ok",
                                 Some(WorkloadWithHash(loaded.mod, shash)), NullOpt, "")

(***************************************************************************)
(* TuningRecord codec (database.cc 115-155)                                *)
(***************************************************************************)

IsArrOf(v, kind) == v.kind = "arr" /\ \A i \in 1..Len(v.val) : v.val[i].kind = kind

\* AsFloatArray: an array of numbers, an error for anything else
AsFloatArray(v) ==
    IF IsArrOf(v, "num")
    THEN [ok |-> TRUE, val |-> [i \in 1..Len(v.val) |-> v.val[i].val[1]]]
    ELSE [ok |-> FALSE, val |-> <<>>]

\* tir::Trace::ApplyJSONToSchedule followed by sch->trace(): the trace of an
\* array of known instructions, an error for anything else
ApplyJSONToSchedule(json_trace, sch) ==
    IF IsArrOf(json_trace, "num") /\ \A i \in 1..Len(json_trace.val) :
                                        json_trace.val[i].val[1] \in Insts
    THEN [ok |-> TRUE,
          sch |-> ApplyToSchedule([i \in 1..Len(json_trace.val) |->
                                      json_trace.val[i].val[1]], sch)]
    ELSE [ok |-> FALSE, sch |-> sch]

\* TuningRecord::FromJSON(json_obj, workload): the set of its possible
\* outcomes. json[3].as<ArrayNode>() is null for a defined value that is not an
\* array, and the code calls size() on it unchecked: undefined behaviour, which
\* terminates the process or continues in an indeterminate state.
TuningRecordFromJSON(json_obj, workload) ==
    LET op == "TuningRecord::FromJSON"
    IN IF json_obj.kind # "arr" \/ Len(json_obj.val) # 4
       THEN {ParseError(op, json_obj, "Check failed")}
       ELSE LET j == json_obj.val
                secs == AsFloatArray(j[2])
                run_secs == IF j[2].kind = "null" THEN NullOpt ELSE Some(secs.val)
                target == IF j[3].kind = "null" THEN NullOpt ELSE Some(j[3].val[1])
                args_info == IF j[4].kind = "null" THEN NullOpt
                             ELSE Some([i \in 1..Len(j[4].val) |-> "arg"])
                traced == ApplyJSONToSchedule(j[1], Traced(workload.mod))
            IN IF j[2].kind # "null" /\ ~secs.ok
               THEN {ParseError(op, json_obj, "Expect an array of numbers")}
               ELSE IF j[3].kind \notin {"null", "map"}
               THEN {ParseError(op, json_obj, "Downcast failed")}
               ELSE IF j[4].kind \notin {"null", "arr"}
               THEN {Outcome(op, "terminated", NullOpt, NullOpt, ""),
                     Outcome(op, "indeterminate", NullOpt, NullOpt, "")}
               ELSE IF j[4].kind = "arr" /\ ~IsArrOf(j[4], "arr")
               THEN {ParseError(op, json_obj, "ArgInfo parse failed")}
               ELSE IF ~traced.ok
               THEN {ParseError(op, json_obj, "Trace parse failed")}
               ELSE {Outcome(op, "ok",
                             Some(TuningRecord(traced.sch.trace, workload, run_secs,
                                               target, args_info)),
                             NullOpt, "")}

(***************************************************************************)
(* Codec calls                                                             *)
(***************************************************************************)

HashValues == {StructuralHash(mod) : mod \in Mods}

\* Workload(mod)
NewWorkload(mod) ==
    /\ ~crashed
    /\ wl' = Some(Workload(mod))
    /\ wlOrigin' = [kind |-> "program", given |-> 0]
    /\ dec' = Outcome("Workload", "ok", Some(Workload(mod)), NullOpt, "")
    /\ UNCHANGED <<wire, wireSrc, scopeVars, storeVars>>

\* Workload(mod, shash) with a hash the caller supplies
NewWorkloadWithHash(mod, shash) ==
    /\ ~crashed
    /\ wl' = Some(WorkloadWithHash(mod, shash))
    /\ wlOrigin' = [kind |-> "pair", given |-> shash]
    /\ dec' = Outcome("Workload", "ok", Some(WorkloadWithHash(mod, shash)), NullOpt, "")
    /\ UNCHANGED <<wire, wireSrc, scopeVars, storeVars>>

\* workload->AsJSON()
CallAsJSON ==
    /\ ~crashed
    /\ wl # NullOpt
    /\ wire' = AsJSON(wl[1])
    /\ wireSrc' = Some([w |-> wl[1], kind |-> wlOrigin.kind])
    /\ dec' = Outcome("Workload::AsJSON", "ok", NullOpt, NullOpt, "")
    /\ UNCHANGED <<wl, wlOrigin, scopeVars, storeVars>>

\* a portable value read from a file or handed in by a caller
Receive(v) ==
    /\ ~crashed
    /\ wire' = v
    /\ wireSrc' = NullOpt
    /\ dec' = Outcome("none", "ok", NullOpt, NullOpt, "")
    /\ UNCHANGED <<wl, wlOrigin, scopeVars, storeVars>>

\* Workload::FromJSON(wire)
CallWorkloadFromJSON ==
    LET out == FromJSON(wire)
    IN /\ ~crashed
       /\ dec' = out
       /\ IF out.status = "ok"
          THEN wl' = out.value /\ wlOrigin' = [kind |-> "decode", given |-> 0]
          ELSE UNCHANGED <<wl, wlOrigin>>
       /\ UNCHANGED <<wire, wireSrc, scopeVars, storeVars>>

\* TuningRecord::FromJSON(wire, wl)
CallTuningRecordFromJSON ==
    /\ ~crashed
    /\ wl # NullOpt
    /\ \E out \in TuningRecordFromJSON(wire, wl[1]) : dec' = out
    /\ UNCHANGED <<wl, wlOrigin, wire, wireSrc, scopeVars, storeVars>>

HashStrings == {SHash2Str(h) : h \in HashValues} \cup {<<"0", "0">>, <<>>}

B64Texts ==
    {Base64Encode(SaveJSON(mod)) : mod \in Mods}
        \cup {Base64Encode(<<123, 120, 125>>), <<"e", "w", "=">>, <<"e", "*", "=", "=">>}

\* values offered to Workload::FromJSON
WorkloadInputs ==
    {Arr(<<Str(h), Str(b)>>) : h \in HashStrings, b \in B64Texts}
        \cup {Null, Str(<<"0">>), Arr(<<Str(<<"0">>)>>),
              Arr(<<Null, Str(Base64Encode(SaveJSON(0)))>>),
              Arr(<<Str(<<"0">>), Num(1)>>),
              Arr(<<Str(<<"0">>), Str(Base64Encode(SaveJSON(0))), Null>>)}

\* values offered to TuningRecord::FromJSON
TraceInputs == {Arr(<<Num(1)>>), Arr(<<Num(2), Num(1)>>), Str(<<"x">>), Null}
RunSecsInputs == {Null, Arr(<<Num(1), Num(2)>>), Str(<<"1">>)}
TargetInputs == {Null, MapV("llvm"), Str(<<"l">>)}
ArgsInfoInputs == {Null, Arr(<<Arr(<<>>)>>), Arr(<<Num(1)>>), Str(<<"a">>)}

TuningRecordInputs ==
    {Arr(<<t, r, g, a>>) : t \in TraceInputs, r \in RunSecsInputs,
                           g \in TargetInputs, a \in ArgsInfoInputs}
        \cup {Str(<<"x">>), Arr(<<Arr(<<Num(1)>>), Null, Null>>),
              Arr(<<Arr(<<Num(1)>>), Null, Null, Null, Null>>)}

InitCodec ==
    /\ wl = NullOpt
    /\ wlOrigin = [kind |-> "none", given |-> 0]
    /\ wire = Null
    /\ wireSrc = NullOpt
    /\ dec = Outcome("none", "ok", NullOpt, NullOpt, "")

NextCodec ==
    \/ \E mod \in Mods : NewWorkload(mod)
    \/ \E mod \in Mods, shash \in HashValues : NewWorkloadWithHash(mod, shash)
    \/ CallAsJSON
    \/ \E v \in WorkloadInputs \cup TuningRecordInputs : Receive(v)
    \/ CallWorkloadFromJSON
    \/ CallTuningRecordFromJSON

InitScope ==
    /\ tls = [t \in Threads |-> <<>>]
    /\ hist = [t \in Threads |-> <<>>]
    /\ misused = [t \in Threads |-> FALSE]
    /\ crashed = FALSE
    /\ last = [op |-> "none", thread |-> None, result |-> None]

NextScope ==
    \/ \E t \in Threads, db \in Databases : EnterWithScope(t, db)
    \/ \E t \in Threads : ExitWithScope(t)
    \/ \E t \in Threads : Current(t)

Init == InitScope /\ InitStore /\ InitCodec

Next == NextScope \/ NextStore \/ NextCodec

Spec == Init /\ [][Next]_vars

SpecScope == Init /\ [][NextScope]_vars

SpecStore == Init /\ [][NextStore]_vars

SpecCodec == Init /\ [][NextCodec]_vars

(***************************************************************************)
(* Claims about the scope stack                                            *)
(***************************************************************************)

\* The database of the latest "enter" of h that no later "exit" matches;
\* pending counts the exits seen (from the end) that still await their enter.
RECURSIVE Unmatched(_, _)
Unmatched(h, pending) ==
    IF h = <<>> THEN None
    ELSE LET e == h[Len(h)]
         IN IF e.op = "exit" THEN Unmatched(Front(h), pending + 1)
            ELSE IF pending > 0 THEN Unmatched(Front(h), pending - 1)
            ELSE e.db

CountOp(h, op) == Cardinality({i \in 1..Len(h) : h[i].op = op})

\* C1: on a thread where ExitWithScope was never called on an empty stack,
\* Current() returns the database of the most recent EnterWithScope not yet
\* matched by an ExitWithScope, and none exactly when every EnterWithScope has
\* been matched.
C1_CurrentIsInnermostOpenScope ==
    (last.op = "Current" /\ ~misused[last.thread]) =>
        /\ last.result = Unmatched(hist[last.thread], 0)
        /\ (last.result = None) <=>
              (CountOp(hist[last.thread], "enter") = CountOp(hist[last.thread], "exit"))

\* Current() after enter db1, enter db2, exit on a thread returns db1
C1_Witness ==
    /\ last.op = "Current"
    /\ ~misused[last.thread]
    /\ Len(hist[last.thread]) >= 3
    /\ hist[last.thread][Len(hist[last.thread])].op = "exit"
    /\ last.result # None
    /\ last.result # hist[last.thread][Len(hist[last.thread]) - 1].db

\* C2: an EnterWithScope or ExitWithScope executed by one thread never changes
\* the value Current() returns on any other thread.
C2_ThreadIsolation ==
    [][\A t \in Threads : (last'.thread # t) => (CurrentOf(t)' = CurrentOf(t))]_vars

\* a thread with an open scope has seen the other thread enter and exit
C2_Witness ==
    \E t \in Threads, u \in Threads :
        /\ t # u
        /\ last.op = "ExitWithScope"
        /\ last.thread = u
        /\ CurrentOf(t) # None
        /\ Len(hist[u]) >= 2

\* C8: ExitWithScope on a thread whose scope stack is empty ends in the error
\* outcome EmptyScopeError rather than popping an element.
C8_ExitOnEmptyIsEmptyScopeError ==
    [][\A t \in Threads :
          (/\ hist'[t] # hist[t]
           /\ last'.op = "ExitWithScope"
           /\ last'.thread = t
           /\ tls[t] = <<>>) => last'.result = "EmptyScopeError"]_vars

(***************************************************************************)
(* Claims about the query facade                                           *)
(***************************************************************************)

InCalls(name, calls) == \E i \in 1..Len(calls) : calls[i] = name

\* C3: QueryTuningRecord(p, t) never changes the store: on a miss it returns
\* none having called neither CommitWorkload, CommitTuningRecord nor GetTopK;
\* on a hit it calls CommitWorkload only on a workload already present; the
\* stored workloads and records are the same before and after.
C3_QueryTuningRecordKeepsStore ==
    [][qlast'.op = "QueryTuningRecord" =>
          /\ workloads' = workloads
          /\ records' = records
          /\ ~InCalls("CommitTuningRecord", qlast'.calls)
          /\ ~HasWorkload(Store, qlast'.mod) =>
                /\ qlast'.result = NullOpt
                /\ ~InCalls("CommitWorkload", qlast'.calls)
                /\ ~InCalls("GetTopK", qlast'.calls)
          /\ InCalls("CommitWorkload", qlast'.calls) => HasWorkload(Store, qlast'.mod)]_vars

\* a hit whose query program is not the stored program of that hash, and a
\* store that also holds a record of a program that was never registered
C3_Witness ==
    /\ qlast.op = "QueryTuningRecord"
    /\ InCalls("CommitWorkload", qlast.calls)
    /\ \E w \in workloads : w.shash = StructuralHash(qlast.mod) /\ w.mod # qlast.mod
    /\ \E i \in 1..Len(records) : ~HasWorkload(Store, records[i].workload.mod)

\* C4: QueryTuningRecord(p, t) returns a record exactly when HasWorkload(p)
\* and GetTopK(CommitWorkload(p), 1) is non-empty, that record is the first of
\* the GetTopK result, the result is the same for every t, and every other case
\* returns none without an error.
C4_QueryTuningRecordResult ==
    [][qlast'.op = "QueryTuningRecord" =>
          LET p == qlast'.mod
              hit == HasWorkload(Store, p)
              top == GetTopK(CommitWorkload(Store, p).db, CommitWorkload(Store, p).ret, 1)
          IN /\ ~qlast'.error
             /\ (qlast'.result # NullOpt) <=> (hit /\ top # <<>>)
             /\ (qlast'.result # NullOpt) => qlast'.result[1] = top[1]]_vars

\* a hit that returns the later-committed, faster of two records
C4_Witness ==
    /\ qlast.op = "QueryTuningRecord"
    /\ qlast.result # NullOpt
    /\ Len(records) = 2
    /\ records[1].workload.shash = records[2].workload.shash
    /\ records[1] # records[2]
    /\ qlast.result[1] = records[2]

\* the module a trace leaves when replayed from mod, instruction by instruction
RECURSIVE ReplayMod(_, _, _)
ReplayMod(trace, mod, i) ==
    IF i > Len(trace) THEN mod
    ELSE ReplayMod(trace, ApplyInst(mod, trace[i]), i + 1)

\* C10: when QueryTuningRecord(p, t) returns a record R, QuerySchedule(p, t)
\* returns the schedule of replaying R.trace on a fresh schedule of
\* R.workload.program and QueryIRModule(p, t) returns that schedule's program;
\* when it returns none, both return none.
C10_ScheduleReplaysStoredProgram ==
    [][\A t \in Targets :
          LET r == QueryTuningRecord(Store, qlast'.mod, t).ret
          IN /\ qlast'.op = "QuerySchedule" =>
                  IF r = NullOpt THEN qlast'.result = NullOpt
                  ELSE /\ qlast'.result # NullOpt
                       /\ qlast'.result[1].mod = ReplayMod(r[1].trace, r[1].workload.mod, 1)
                       /\ qlast'.result[1].trace = r[1].trace
             /\ qlast'.op = "QueryIRModule" =>
                  IF r = NullOpt THEN qlast'.result = NullOpt
                  ELSE qlast'.result = Some(ReplayMod(r[1].trace, r[1].workload.mod, 1))]_vars

\* QueryIRModule answered from a stored program that is not the query program,
\* where replaying on the query program would give another module
C10_Witness ==
    /\ qlast.op = "QueryIRModule"
    /\ qlast.result # NullOpt
    /\ \E i \in 1..Len(records) :
          /\ records[i].workload.shash = StructuralHash(qlast.mod)
          /\ records[i].workload.mod # qlast.mod
          /\ qlast.result[1] = ReplayMod(records[i].trace, records[i].workload.mod, 1)
          /\ qlast.result[1] # ReplayMod(records[i].trace, qlast.mod, 1)

(***************************************************************************)
(* Claims about the codecs                                                 *)
(***************************************************************************)

IsStrPair(v) ==
    v.kind = "arr" /\ Len(v.val) = 2 /\ v.val[1].kind = "str" /\ v.val[2].kind = "str"

\* the program a [hash_string, encoded_program] value carries, if it carries one
CarriedProgram(v) == LoadJSON(Base64Decode(v.val[2].val).bytes)
CarriesProgram(v) == Base64Decode(v.val[2].val).ok /\ CarriedProgram(v).ok

\* C5: Workload decode of [hash_string, encoded_program] recomputes the hash of
\* the decoded program; whenever its string differs from hash_string the decode
\* ends in the hash-mismatch error and returns no Workload; a Workload is
\* returned only when the two strings are equal.
C5_DecodeRejectsHashMismatch ==
    (dec.op = "Workload::FromJSON" /\ IsStrPair(wire)) =>
        /\ (/\ CarriesProgram(wire)
            /\ SHash2Str(StructuralHash(CarriedProgram(wire).mod)) # wire.val[1].val)
              => /\ dec.status = "error"
                 /\ dec.cause = "Structural hash changed"
                 /\ dec.value = NullOpt
        /\ dec.value # NullOpt =>
              /\ dec.status = "ok"
              /\ CarriesProgram(wire)
              /\ SHash2Str(StructuralHash(CarriedProgram(wire).mod)) = wire.val[1].val
              /\ SHash2Str(dec.value[1].shash) = wire.val[1].val

\* a well-formed program stored under the hash string of another program
C5_Witness ==
    /\ dec.op = "Workload::FromJSON"
    /\ IsStrPair(wire)
    /\ CarriesProgram(wire)
    /\ \E mod \in Mods : SHash2Str(StructuralHash(mod)) = wire.val[1].val
    /\ dec.status = "error"
    /\ dec.cause = "Structural hash changed"

\* C6: decoding the encoding of the Workload built from a program succeeds and
\* yields a Workload of the same hash whose program serializes to the same bytes.
C6_WorkloadRoundTrip ==
    (dec.op = "Workload::FromJSON" /\ wireSrc # NullOpt /\ wireSrc[1].kind = "program") =>
        /\ dec.status = "ok"
        /\ dec.value # NullOpt
        /\ dec.value[1].shash = wireSrc[1].w.shash
        /\ SaveJSON(dec.value[1].mod) = SaveJSON(wireSrc[1].w.mod)

\* a round trip of a program whose text needs base64 padding
C6_Witness ==
    /\ dec.op = "Workload::FromJSON"
    /\ wireSrc # NullOpt
    /\ wireSrc[1].kind = "program"
    /\ Len(SaveJSON(wireSrc[1].w.mod)) % 3 # 0
    /\ dec.status = "ok"
    /\ wire.val[2].val[Len(wire.val[2].val)] = "="

\* C7 as claimed: every Workload, whichever way it was constructed, satisfies
\* hash == ContentHash(program).
C7_EveryWorkloadHashMatches ==
    wl # NullOpt => wl[1].shash = StructuralHash(wl[1].mod)

\* C7 as amended: a Workload built from a program alone or by decode satisfies
\* hash == ContentHash(program); one built from a caller-supplied (program, hash)
\* pair carries the supplied hash; and the calls that use a Workload (AsJSON,
\* TuningRecord decode) leave its program and hash as constructed.
C7_HashMatchesUnlessSupplied ==
    [][/\ wl' # NullOpt =>
             IF wlOrigin'.kind = "pair"
             THEN wl'[1].shash = wlOrigin'.given
             ELSE wl'[1].shash = StructuralHash(wl'[1].mod)
       /\ dec'.op \in {"Workload::AsJSON", "TuningRecord::FromJSON"} =>
             /\ wl' = wl
             /\ (dec'.status = "ok" /\ dec'.value # NullOpt) =>
                   dec'.value[1].workload = wl[1]]_vars

\* a decoded Workload, and a record decoded against it
C7_Witness ==
    /\ wlOrigin.kind = "decode"
    /\ wl # NullOpt
    /\ wl[1].mod # 0
    /\ dec.op = "TuningRecord::FromJSON"
    /\ dec.status = "ok"

\* a portable value TuningRecord decode must reject for its shape
ShapeMismatch(v) ==
    \/ v.kind # "arr"
    \/ Len(v.val) # 4
    \/ /\ v.kind = "arr"
       /\ Len(v.val) = 4
       /\ \/ v.val[2].kind \notin {"null", "arr"}
          \/ v.val[3].kind \notin {"null", "map"}
          \/ v.val[4].kind \notin {"null", "arr"}
          \/ v.val[1].kind \notin {"null", "arr"}

\* C9: TuningRecord decode of a value with a shape mismatch ends in the fatal
\* parse error that reports the offending value, and returns no TuningRecord.
C9_ShapeMismatchIsParseError ==
    (dec.op = "TuningRecord::FromJSON" /\ ShapeMismatch(wire)) =>
        /\ dec.status = "error"
        /\ dec.report = Some(wire)
        /\ dec.value = NullOpt

====
